---- MODULE Spec2Model ----
(***************************************************************************)
(* Deal finder: the conversational state machine of ProductChatAgent       *)
(* (product_agent.py), the web searcher it calls (web_searcher.py), the    *)
(* offer comparator (offer_comparator.py) and the rolling ChatContext      *)
(* (models.py).                                                            *)
(*                                                                         *)
(* Text is modelled as a sequence of one-character strings, so that the    *)
(* regular expressions and substring tests of the code are computed on the *)
(* characters.  An optional value is a sequence of length at most one:     *)
(* None is << >> and Some(x) is <<x>>.                                     *)
(***************************************************************************)
EXTENDS Integers, Sequences, FiniteSets, TLC

(***************************************************************************)
(* Bounds of the model.                                                    *)
(***************************************************************************)
\* number of chat invocations in one behaviour of the agent
MaxChats == 4
\* largest max_turns a ChatContext is configured with
MaxTurnsBound == 2
\* number of add_message calls beyond the capacity of a ChatContext
MaxExtra == 2
\* chat calls in a run over several thread ids
MaxThreadChats == 2
\* chat calls in a run whose calls are recorded
MaxSeqChats == 2
\* chat calls that run at the same time
MaxConcurrent == 2
\* offers in one call of compare_offers
MaxOffers == 3

(***************************************************************************)
(* Optional values and text helpers (Python str semantics).                *)
(***************************************************************************)
None == << >>
Some(x) == <<x>>

UpperChars == <<"A","B","C","D","E","F","G","H","I","J","K","L","M","N","O","P","Q","R","S","T","U","V","W","X","Y","Z">>
LowerChars == <<"a","b","c","d","e","f","g","h","i","j","k","l","m","n","o","p","q","r","s","t","u","v","w","x","y","z">>
DigitChars == {"0","1","2","3","4","5","6","7","8","9"}

\* str.lower() on one character
LowerTable == [c \in {UpperChars[i] : i \in 1..26} |->
                 LowerChars[CHOOSE i \in 1..26 : UpperChars[i] = c]]

LowerChar(c) == IF c \in DOMAIN LowerTable THEN LowerTable[c] ELSE c

\* str.lower()
RECURSIVE Lower(_)
Lower(s) == IF s = << >> THEN << >> ELSE <<LowerChar(Head(s))>> \o Lower(Tail(s))

\* the regex class \s
IsSpace(c) == c \in {" ", "\t", "\n", "\r"}

\* the literal lit occurs in s at position i
StartsWithAt(s, i, lit) ==
  /\ i >= 1
  /\ i + Len(lit) - 1 <= Len(s)
  /\ \A k \in 1..Len(lit) : s[i + k - 1] = lit[k]

\* Python's `lit in s`
Contains(s, lit) == \E i \in 1..(Len(s) + 1) : StartsWithAt(s, i, lit)

\* s[a:b] for 0 <= a, b (Python slice, clamped to the length)
Slice(s, a, b) ==
  LET hi == IF b > Len(s) THEN Len(s) ELSE b
  IN  IF a >= hi THEN << >> ELSE SubSeq(s, a + 1, hi)

(***************************************************************************)
(* re.compile(r'https?://[^\s]+'): product_agent.py lines 133, 165, 252.   *)
(***************************************************************************)
HttpLit == <<"h","t","t","p",":","/","/">>
HttpsLit == <<"h","t","t","p","s",":","/","/">>

\* length of the prefix https?:// matched at position i, 0 when none
UrlSchemeLen(s, i) ==
  IF StartsWithAt(s, i, HttpsLit) THEN 8
  ELSE IF StartsWithAt(s, i, HttpLit) THEN 7
  ELSE 0

\* the pattern matches at position i: the prefix and at least one non-space
UrlMatchAt(s, i) ==
  /\ UrlSchemeLen(s, i) > 0
  /\ i + UrlSchemeLen(s, i) <= Len(s)
  /\ ~IsSpace(s[i + UrlSchemeLen(s, i)])

\* end of the greedy run [^\s]+ that starts at position i
RunEnd(s, i) ==
  IF \E j \in i..Len(s) : IsSpace(s[j])
  THEN (CHOOSE j \in i..Len(s) : IsSpace(s[j]) /\ \A k \in i..(j - 1) : ~IsSpace(s[k])) - 1
  ELSE Len(s)

\* url_pattern.search(s): None, or Some of the leftmost match's text
UrlSearch(s) ==
  IF \E i \in 1..Len(s) : UrlMatchAt(s, i)
  THEN LET i == CHOOSE i \in 1..Len(s) : UrlMatchAt(s, i) /\ \A k \in 1..(i - 1) : ~UrlMatchAt(s, k)
       IN  Some(SubSeq(s, i, RunEnd(s, i)))
  ELSE None

(***************************************************************************)
(* ProductChatAgent._fallback_classification                               *)
(***************************************************************************)
search_keywords ==
  << <<"f","i","n","d">>,
     <<"s","e","a","r","c","h">>,
     <<"l","o","o","k"," ","f","o","r">>,
     <<"c","o","m","p","a","r","e">>,
     <<"b","e","s","t"," ","p","r","i","c","e">>,
     <<"d","e","a","l">>,
     <<"b","u","y">>,
     <<"p","u","r","c","h","a","s","e">>,
     <<"s","h","o","p">>,
     <<"p","r","i","c","e">>,
     <<"c","o","s","t">>,
     <<"c","h","e","a","p">>,
     <<"e","x","p","e","n","s","i","v","e">> >>

\* the keyword test is made first: a URL that holds a keyword is a search
FallbackKeywordFirst(user_input) ==
  IF \E k \in 1..Len(search_keywords) : Contains(Lower(user_input), search_keywords[k])
  THEN "search_products"
  ELSE IF UrlSearch(user_input) # None THEN "extract_from_url"
  ELSE "default_chat"

_fallback_classification(user_input) ==
  IF UrlSearch(user_input) # None THEN "extract_from_url"
  ELSE IF \E k \in 1..Len(search_keywords) : Contains(Lower(user_input), search_keywords[k])
  THEN "search_products"
  ELSE "default_chat"

(***************************************************************************)
(* models.py: ProductOffer                                                 *)
(***************************************************************************)
ProductOffer(title, price, url, source, description) ==
  [title |-> title, price |-> price, url |-> url, source |-> source,
   description |-> description, rating |-> None, availability |-> None]

(***************************************************************************)
(* config.py                                                               *)
(***************************************************************************)
MAX_SEARCH_RESULTS == 5
MAX_CONTEXT_TURNS == 3

(***************************************************************************)
(* WebSearcher._extract_price: the three price patterns, tried in order.   *)
(***************************************************************************)
MinOf(S) == CHOOSE m \in S : \A x \in S : m <= x

\* last index of the greedy run \d+ starting at i (i - 1 when s[i] is no digit)
DigitsEnd(s, i) ==
  LET stop == {j \in i..Len(s) : s[j] \notin DigitChars}
  IN  IF stop = {} THEN Len(s) ELSE MinOf(stop) - 1

\* last index of the greedy run \s* starting at i (i - 1 when there is none)
SpacesEnd(s, i) ==
  LET stop == {j \in i..Len(s) : ~IsSpace(s[j])}
  IN  IF stop = {} THEN Len(s) ELSE MinOf(stop) - 1

\* (?:\.\d{2})? after index j: the index after the optional group
FracEnd(s, j) ==
  IF /\ j + 3 <= Len(s)
     /\ s[j + 1] = "."
     /\ s[j + 2] \in DigitChars
     /\ s[j + 3] \in DigitChars
  THEN j + 3
  ELSE j

\* r'\$\d+(?:\.\d{2})?' at position i: index of the last character, 0 if none
PricePattern1(s, i) ==
  IF s[i] = "$" /\ DigitsEnd(s, i + 1) >= i + 1
  THEN FracEnd(s, DigitsEnd(s, i + 1))
  ELSE 0

\* r'\d+(?:\.\d{2})?\s*(?:USD|dollars?)', IGNORECASE
PricePattern2(s, i) ==
  IF DigitsEnd(s, i) < i THEN 0
  ELSE LET se == SpacesEnd(s, FracEnd(s, DigitsEnd(s, i)) + 1)
           low == Lower(s)
       IN  IF StartsWithAt(low, se + 1, <<"u","s","d">>) THEN se + 3
           ELSE IF StartsWithAt(low, se + 1, <<"d","o","l","l","a","r","s">>) THEN se + 7
           ELSE IF StartsWithAt(low, se + 1, <<"d","o","l","l","a","r">>) THEN se + 6
           ELSE 0

\* r'Price:\s*\$?\d+(?:\.\d{2})?', IGNORECASE
PricePattern3(s, i) ==
  IF ~StartsWithAt(Lower(s), i, <<"p","r","i","c","e",":">>) THEN 0
  ELSE LET se == SpacesEnd(s, i + 6)
           ds == IF se + 1 <= Len(s) /\ s[se + 1] = "$" THEN se + 2 ELSE se + 1
       IN  IF DigitsEnd(s, ds) >= ds THEN FracEnd(s, DigitsEnd(s, ds)) ELSE 0

\* price_patterns[k] matched at position i: the index its match ends at, or 0
PricePattern(k, s, i) ==
  IF k = 1 THEN PricePattern1(s, i)
  ELSE IF k = 2 THEN PricePattern2(s, i)
  ELSE PricePattern3(s, i)

\* re.search(price_patterns[k], text): None, or Some of the leftmost match
RegexSearch(s, k) ==
  LET at == {i \in 1..Len(s) : PricePattern(k, s, i) > 0}
  IN  IF at = {} THEN None ELSE Some(SubSeq(s, MinOf(at), PricePattern(k, s, MinOf(at))))

_extract_price(text) ==
  IF RegexSearch(text, 1) # None THEN RegexSearch(text, 1)
  ELSE IF RegexSearch(text, 2) # None THEN RegexSearch(text, 2)
  ELSE RegexSearch(text, 3)

(***************************************************************************)
(* WebSearcher._extract_domain: urlparse(url).netloc without a www. prefix *)
(***************************************************************************)
SchemeChars ==
  {UpperChars[i] : i \in 1..26} \cup {LowerChars[i] : i \in 1..26} \cup DigitChars \cup {"+", "-", "."}

\* the text after the scheme and its colon (the whole url when it has none)
AfterScheme(url) ==
  LET colons == {i \in 1..Len(url) : url[i] = ":"}
  IN  IF colons = {} THEN url
      ELSE LET i == MinOf(colons)
           IN  IF /\ i > 1
                  /\ url[1] \notin (DigitChars \cup {"+", "-", "."})
                  /\ \A k \in 1..(i - 1) : url[k] \in SchemeChars
               THEN Slice(url, i, Len(url))
               ELSE url

\* urlparse(url).netloc
Netloc(url) ==
  LET rest == AfterScheme(url)
  IN  IF ~StartsWithAt(rest, 1, <<"/","/">>) THEN << >>
      ELSE LET delim == {j \in 3..Len(rest) : rest[j] \in {"/", "?", "#"}}
           IN  IF delim = {} THEN Slice(rest, 2, Len(rest))
               ELSE Slice(rest, 2, MinOf(delim) - 1)

\* urlparse raises ValueError on an unbalanced bracket in the netloc
NetlocRaises(url) ==
  LET n == Netloc(url)
  IN  (\E i \in 1..Len(n) : n[i] = "[") # (\E i \in 1..Len(n) : n[i] = "]")

StripWww(domain) ==
  IF StartsWithAt(domain, 1, <<"w","w","w",".">>) THEN Slice(domain, 4, Len(domain)) ELSE domain

\* s.split(sep)[k] for a one-character separator, k counted from 0
SplitPart(s, sep, k) ==
  LET seps == {i \in 1..Len(s) : s[i] = sep}
      \* position of the n-th separator, 0 for n = 0 and Len(s) + 1 past the last
      pos(n) == IF n = 0 THEN 0
                ELSE IF n > Cardinality(seps) THEN Len(s) + 1
                ELSE CHOOSE i \in seps : Cardinality({j \in seps : j <= i}) = n
  IN  Slice(s, pos(k), pos(k + 1) - 1)

SplitCount(s, sep) == Cardinality({i \in 1..Len(s) : s[i] = sep}) + 1

_extract_domain(url) ==
  IF ~NetlocRaises(url) THEN StripWww(Netloc(url))
  ELSE IF Contains(url, <<"/","/">>)
  THEN LET i == MinOf({i \in 1..Len(url) : StartsWithAt(url, i, <<"/","/">>)})
       IN  StripWww(SplitPart(Slice(url, i + 1, Len(url)), "/", 0))
  ELSE <<"U","n","k","n","o","w","n">>

(***************************************************************************)
(* WebSearcher._extract_offer_from_tavily_result.  A result is a record    *)
(* [title, url, content]; a missing key reads as the empty text.           *)
(***************************************************************************)
_extract_offer_from_tavily_result(result) ==
  IF result.title = << >> \/ result.url = << >> THEN None
  ELSE Some(ProductOffer(
         result.title,
         _extract_price(result.content),
         result.url,
         _extract_domain(result.url),
         Some(IF Len(result.content) > 200
              THEN Slice(result.content, 0, 200) \o <<".",".",".">>
              ELSE result.content)))

(***************************************************************************)
(* WebSearcher._search_with_fallback: two simulated offers                 *)
(***************************************************************************)
\* the simulated offers are dropped: a failed search yields nothing
SearchFallbackEmpty(query) == << >>

_search_with_fallback(query) ==
  << ProductOffer(
       <<"S","a","m","p","l","e"," ">> \o query \o <<" ","O","f","f","e","r"," ","1">>,
       Some(<<"$","9","9",".","9","9">>),
       <<"h","t","t","p","s",":","/","/","e","x","a","m","p","l","e",".","c","o","m","/","p","r","o","d","u","c","t","1">>,
       <<"E","x","a","m","p","l","e"," ","S","t","o","r","e">>,
       Some(<<"H","i","g","h","-","q","u","a","l","i","t","y"," ">> \o query
              \o <<" ","w","i","t","h"," ","g","r","e","a","t"," ","f","e","a","t","u","r","e","s">>)),
     ProductOffer(
       <<"P","r","e","m","i","u","m"," ">> \o query \o <<" ","D","e","a","l">>,
       Some(<<"$","1","4","9",".","9","9">>),
       <<"h","t","t","p","s",":","/","/","e","x","a","m","p","l","e",".","c","o","m","/","p","r","o","d","u","c","t","2">>,
       <<"P","r","e","m","i","u","m"," ","S","t","o","r","e">>,
       Some(<<"P","r","e","m","i","u","m"," ">> \o query
              \o <<" ","w","i","t","h"," ","w","a","r","r","a","n","t","y">>)) >>

(***************************************************************************)
(* WebSearcher._search_with_tavily and WebSearcher.search_products.        *)
(* The outcome of tavily_search.invoke is an input: it raises, or returns  *)
(* a list of results, or returns a text (each character of which then      *)
(* fails in _extract_offer_from_tavily_result and yields no offer).        *)
(***************************************************************************)
RECURSIVE OffersOf(_)
OffersOf(results) ==
  IF results = << >> THEN << >>
  ELSE _extract_offer_from_tavily_result(Head(results)) \o OffersOf(Tail(results))

_search_with_tavily(query, outcome) ==
  IF outcome.kind = "raise" THEN _search_with_fallback(query)
  ELSE IF outcome.kind = "text" THEN << >>
  ELSE Slice(OffersOf(outcome.results), 0, MAX_SEARCH_RESULTS)

search_products(tavily, query, outcome) ==
  IF tavily THEN _search_with_tavily(query, outcome) ELSE _search_with_fallback(query)

(***************************************************************************)
(* WebSearcher.extract_from_url.  The outcome of the fetch is an input:    *)
(* the request raises, or the page yields (title, price, description) as   *)
(* _extract_title, _extract_price_from_page and _extract_description       *)
(* return them.                                                            *)
(***************************************************************************)
extract_from_url(url, page) ==
  IF page.kind = "raise" THEN None
  ELSE IF page.title # None /\ page.title[1] # << >>
  THEN Some(ProductOffer(
         page.title[1],
         page.price,
         url,
         IF SplitCount(url, "/") > 2 THEN SplitPart(url, "/", 2)
         ELSE <<"U","n","k","n","o","w","n">>,
         page.description))
  ELSE None

(***************************************************************************)
(* offer_comparator.py.  Numbers are exact: a price is counted in units of *)
(* 10^-PriceDecimals and a score in units of 1/ScoreUnit of a point, so    *)
(* that every weighted sub-score is an integer.  A rating is counted in    *)
(* tenths.                                                                 *)
(***************************************************************************)
\* decimals of a price that the units keep
PriceDecimals == 2

RECURSIVE Pow10(_)
Pow10(k) == IF k = 0 THEN 1 ELSE 10 * Pow10(k - 1)

\* units of one point of score
ScoreUnit == 25 * Pow10(PriceDecimals)

DigitVal(c) == CHOOSE v \in 0..9 : <<"0","1","2","3","4","5","6","7","8","9">>[v + 1] = c

RECURSIVE IntOf(_)
IntOf(digits) ==
  IF digits = << >> THEN 0
  ELSE 10 * IntOf(SubSeq(digits, 1, Len(digits) - 1)) + DigitVal(digits[Len(digits)])

\* str.replace(',', '')
RECURSIVE RemoveCommas(_)
RemoveCommas(s) ==
  IF s = << >> THEN << >>
  ELSE IF Head(s) = "," THEN RemoveCommas(Tail(s))
  ELSE <<Head(s)>> \o RemoveCommas(Tail(s))

\* OfferComparator._extract_numeric_price, in price units; 0 when no number
_extract_numeric_price(price_str) ==
  LET t == RemoveCommas(price_str)
      at == {i \in 1..Len(t) : t[i] \in DigitChars}
  IN  IF at = {} THEN 0
      ELSE LET i == MinOf(at)
               de == DigitsEnd(t, i)
               fe == IF de + 1 <= Len(t) /\ t[de + 1] = "." THEN DigitsEnd(t, de + 2) ELSE de
               frac == IF fe > de + 1 THEN Slice(SubSeq(t, de + 2, fe), 0, PriceDecimals) ELSE << >>
           IN  IntOf(SubSeq(t, i, de)) * Pow10(PriceDecimals)
                 + IntOf(frac) * Pow10(PriceDecimals - Len(frac))

\* Python truthiness of an Optional[str]
Truthy(opt) == opt # None /\ opt[1] # << >>

trusted_domains ==
  << <<"a","m","a","z","o","n">>,
     <<"b","e","s","t","b","u","y">>,
     <<"w","a","l","m","a","r","t">>,
     <<"t","a","r","g","e","t">>,
     <<"n","e","w","e","g","g">>,
     <<"b","h","p","h","o","t","o","v","i","d","e","o">> >>

medium_domains ==
  << <<"e","b","a","y">>,
     <<"e","t","s","y">>,
     <<"s","h","o","p","i","f","y">>,
     <<"w","o","o","c","o","m","m","e","r","c","e">> >>

AnyIn(words, text) == \E k \in 1..Len(words) : Contains(text, words[k])

\* OfferComparator._calculate_source_score, in tenths
_calculate_source_score(source) ==
  IF AnyIn(trusted_domains, Lower(source)) THEN 10
  ELSE IF AnyIn(medium_domains, Lower(source)) THEN 7
  ELSE 5

description_keywords ==
  << <<"w","a","r","r","a","n","t","y">>,
     <<"g","u","a","r","a","n","t","e","e">>,
     <<"f","r","e","e"," ","s","h","i","p","p","i","n","g">>,
     <<"f","a","s","t"," ","d","e","l","i","v","e","r","y">>,
     <<"a","u","t","h","e","n","t","i","c">>,
     <<"g","e","n","u","i","n","e">> >>

\* OfferComparator._calculate_description_score, in tenths
_calculate_description_score(description) ==
  IF ~Truthy(description) THEN 0
  ELSE LET d == description[1]
           len_bonus == IF Len(d) > 100 THEN 3 ELSE IF Len(d) > 50 THEN 2 ELSE 1
           kw_bonus == Cardinality({k \in 1..Len(description_keywords) :
                                      Contains(Lower(d), description_keywords[k])})
       IN  IF len_bonus + kw_bonus > 10 THEN 10 ELSE len_bonus + kw_bonus

\* OfferComparator._calculate_availability_score, in tenths
_calculate_availability_score(availability) ==
  LET a == Lower(availability)
  IN  IF AnyIn(<< <<"i","n"," ","s","t","o","c","k">>, <<"a","v","a","i","l","a","b","l","e">>,
                  <<"r","e","a","d","y"," ","t","o"," ","s","h","i","p">> >>, a) THEN 10
      ELSE IF AnyIn(<< <<"l","i","m","i","t","e","d">>, <<"f","e","w"," ","l","e","f","t">> >>, a) THEN 7
      ELSE IF AnyIn(<< <<"o","u","t"," ","o","f"," ","s","t","o","c","k">>,
                       <<"u","n","a","v","a","i","l","a","b","l","e">> >>, a) THEN 0
      ELSE 5

\* OfferComparator._calculate_offer_score, in score units
_calculate_offer_score(offer) ==
  LET p == IF Truthy(offer.price) THEN _extract_numeric_price(offer.price[1]) ELSE 0
      price_part ==
        IF p > 0
        THEN IF p >= 1000 * Pow10(PriceDecimals) THEN 0 ELSE 40 * ScoreUnit - p
        ELSE 0
      source_part == _calculate_source_score(offer.source) * 2 * ScoreUnit
      desc_part == _calculate_description_score(offer.description) * 2 * ScoreUnit
      avail_part ==
        IF Truthy(offer.availability)
        THEN _calculate_availability_score(offer.availability[1]) * ScoreUnit
        ELSE 0
      rating_part ==
        IF offer.rating # None /\ offer.rating[1] # 0
        THEN (IF offer.rating[1] > 50 THEN 50 ELSE offer.rating[1]) * (ScoreUnit \div 5)
        ELSE 0
  IN  price_part + source_part + desc_part + avail_part + rating_part

RECURSIVE SortByScore(_)
\* an unstable sort: the last of the maximal offers leads
SortByScoreLastMax(scored) ==
  IF scored = << >> THEN << >>
  ELSE LET i == CHOOSE i \in 1..Len(scored) :
                  /\ \A j \in 1..Len(scored) : scored[j].score <= scored[i].score
                  /\ \A j \in (i + 1)..Len(scored) : scored[j].score < scored[i].score
       IN  <<scored[i]>> \o SubSeq(scored, 1, i - 1) \o SubSeq(scored, i + 1, Len(scored))

\* list.sort(key=score, reverse=True): stable, so the first maximum leads
SortByScore(scored) ==
  IF scored = << >> THEN << >>
  ELSE LET i == MinOf({i \in 1..Len(scored) :
                         \A j \in 1..Len(scored) : scored[j].score <= scored[i].score})
       IN  <<scored[i]>> \o SortByScore(SubSeq(scored, 1, i - 1) \o SubSeq(scored, i + 1, Len(scored)))

RECURSIVE SumSeq(_)
SumSeq(q) == IF q = << >> THEN 0 ELSE Head(q) + SumSeq(Tail(q))

MinSeq(q) == MinOf({q[i] : i \in 1..Len(q)})
MaxSeq(q) == CHOOSE m \in {q[i] : i \in 1..Len(q)} : \A i \in 1..Len(q) : q[i] <= m

\* the parseable prices of a list of scored offers, in list order
RECURSIVE PricesOf(_)
PricesOf(scored) ==
  IF scored = << >> THEN << >>
  ELSE LET o == Head(scored).offer
           v == IF Truthy(o.price) THEN _extract_numeric_price(o.price[1]) ELSE 0
       IN  (IF v > 0 THEN <<v>> ELSE << >>) \o PricesOf(Tail(scored))

\* OfferComparator._generate_comparison_metrics; an average is kept as the
\* pair of its sum and its count
_generate_comparison_metrics(scored_offers) ==
  LET prices == PricesOf(scored_offers)
      sources == {scored_offers[i].offer.source : i \in 1..Len(scored_offers)}
      scores == [i \in 1..Len(scored_offers) |-> scored_offers[i].score]
  IN  [total_offers |-> Len(scored_offers),
       price_range |->
         IF prices # << >>
         THEN Some([min |-> MinSeq(prices), max |-> MaxSeq(prices),
                    avg |-> [sum |-> SumSeq(prices), count |-> Len(prices)]])
         ELSE None,
       source_diversity |-> [unique_sources |-> Cardinality(sources), sources |-> sources],
       score_distribution |->
         [min_score |-> MinSeq(scores), max_score |-> MaxSeq(scores),
          avg_score |-> [sum |-> SumSeq(scores), count |-> Len(scores)]]]

RECURSIVE SelectOthers(_, _)
SelectOthers(scored, best_offer) ==
  IF scored = << >> THEN << >>
  ELSE (IF Head(scored).offer # best_offer THEN <<Head(scored)>> ELSE << >>)
         \o SelectOthers(Tail(scored), best_offer)

\* ". ".join(parts) + "."
RECURSIVE JoinParts(_)
JoinParts(parts) ==
  IF Len(parts) = 1 THEN <<parts[1], ".">>
  ELSE <<parts[1], ". ">> \o JoinParts(Tail(parts))

\* OfferComparator._generate_reasoning: the text as the sequence of its pieces
_generate_reasoning(scored_offers, best_offer, best_score) ==
  LET opener ==
        IF best_score > 80 * ScoreUnit THEN <<"This offer received an excellent overall score">>
        ELSE IF best_score > 60 * ScoreUnit THEN <<"This offer received a good overall score">>
        ELSE <<"This offer was selected as the best available option">>
      price_val == IF Truthy(best_offer.price) THEN _extract_numeric_price(best_offer.price[1]) ELSE 0
      other_prices == PricesOf(SelectOthers(scored_offers, best_offer))
      price_clause ==
        IF price_val > 0 /\ other_prices # << >>
        THEN IF price_val < MinSeq(other_prices)
             THEN <<"it offers the lowest price among all options">>
             ELSE IF price_val * Len(other_prices) < SumSeq(other_prices)
             THEN <<"it offers a competitive price below the average">>
             ELSE << >>
        ELSE << >>
      source_score == _calculate_source_score(best_offer.source)
      source_clause ==
        IF source_score > 8 THEN <<"it comes from a highly trusted retailer">>
        ELSE IF source_score > 6 THEN <<"it comes from a reputable retailer">>
        ELSE << >>
      desc_clause ==
        IF Truthy(best_offer.description) /\ Len(best_offer.description[1]) > 100
        THEN <<"it provides detailed product information">>
        ELSE << >>
      rating == IF best_offer.rating # None THEN best_offer.rating[1] ELSE 0
      rating_clause ==
        IF rating # 0 /\ rating > 40 THEN <<"it has excellent customer ratings">>
        ELSE IF rating # 0 /\ rating > 35 THEN <<"it has good customer ratings">>
        ELSE << >>
  IN  JoinParts(opener \o price_clause \o source_clause \o desc_clause \o rating_clause)

\* compare_offers lines 21-25: every offer with its score
RECURSIVE ScoreAll(_)
ScoreAll(offers) ==
  IF offers = << >> THEN << >>
  ELSE <<[offer |-> Head(offers), score |-> _calculate_offer_score(Head(offers))]>>
         \o ScoreAll(Tail(offers))

\* all_offers is given in the order of the scores
ResultOfSortedReordered(offers, scored_offers) ==
  [kind |-> "ok",
   value |-> [best_offer |-> scored_offers[1].offer,
              all_offers |-> [i \in 1..Len(scored_offers) |-> scored_offers[i].offer],
              comparison_metrics |-> _generate_comparison_metrics(scored_offers),
              reasoning |-> _generate_reasoning(scored_offers, scored_offers[1].offer,
                                                scored_offers[1].score)]]

\* compare_offers lines 30-44, on the sorted list
ResultOfSorted(offers, scored_offers) ==
  [kind |-> "ok",
   value |-> [best_offer |-> scored_offers[1].offer,
              all_offers |-> offers,
              comparison_metrics |-> _generate_comparison_metrics(scored_offers),
              reasoning |-> _generate_reasoning(scored_offers, scored_offers[1].offer,
                                                scored_offers[1].score)]]

\* a single offer is scored and reasoned about like several
CompareNoSingleCase(offers) ==
  IF offers = << >> THEN [kind |-> "raise"]
  ELSE ResultOfSorted(offers, SortByScore(ScoreAll(offers)))

\* OfferComparator.compare_offers: raises ValueError on an empty list
compare_offers(offers) ==
  IF offers = << >> THEN [kind |-> "raise"]
  ELSE IF Len(offers) = 1
  THEN [kind |-> "ok",
        value |-> [best_offer |-> offers[1], all_offers |-> offers,
                   comparison_metrics |-> [single_offer |-> TRUE],
                   reasoning |-> <<"Only one offer available">>]]
  ELSE ResultOfSorted(offers, SortByScore(ScoreAll(offers)))

(***************************************************************************)
(* ProductChatAgent._extract_citations                                     *)
(***************************************************************************)
\* url_pattern.findall(text) from position i on, left to right
RECURSIVE FindAllUrls(_, _)
FindAllUrls(s, i) ==
  LET at == {k \in i..Len(s) : UrlMatchAt(s, k)}
  IN  IF at = {} THEN {}
      ELSE {SubSeq(s, MinOf(at), RunEnd(s, MinOf(at)))} \cup FindAllUrls(s, RunEnd(s, MinOf(at)) + 1)

\* end of the greedy run [^\s,]+ starting at i (i - 1 when there is none)
TokenEnd(s, i) ==
  LET stop == {j \in i..Len(s) : IsSpace(s[j]) \/ s[j] = ","}
  IN  IF stop = {} THEN Len(s) ELSE MinOf(stop) - 1

\* r'from\s+([^\s,]+)', IGNORECASE, at position i: index of the last character
SourcePattern(s, i) ==
  IF /\ StartsWithAt(Lower(s), i, <<"f","r","o","m">>)
     /\ SpacesEnd(s, i + 4) >= i + 4
     /\ TokenEnd(s, SpacesEnd(s, i + 4) + 1) >= SpacesEnd(s, i + 4) + 1
  THEN TokenEnd(s, SpacesEnd(s, i + 4) + 1)
  ELSE 0

\* source_pattern.findall(text) from position i on: the captured groups
RECURSIVE FindAllSources(_, _)
FindAllSources(s, i) ==
  LET at == {k \in i..Len(s) : SourcePattern(s, k) > 0}
  IN  IF at = {} THEN {}
      ELSE LET k == MinOf(at)
           IN  {SubSeq(s, SpacesEnd(s, k + 4) + 1, SourcePattern(s, k))}
                 \cup FindAllSources(s, SourcePattern(s, k) + 1)

\* list(set(citations)): the citations as a set
_extract_citations(text) == FindAllUrls(text, 1) \cup FindAllSources(text, 1)

(***************************************************************************)
(* Inputs of the model.                                                    *)
(***************************************************************************)
ThreadIds == {"t1", "t2"}

\* what the user types in the runs of several invocations
DeepInputs ==
  { <<"h","i">>,
    <<"h","t","t","p",":","/","/","s","h","o","p",".","i","o","/","p">> }

\* a one-invocation run draws its input from up to MaxWords of these words
MaxWords == 2
Words ==
  { <<"h","i">>,
    <<"B","U","Y">>,
    <<"c","o","s","t">>,
    <<"h","t","t","p",":","/","/","s","h","o","p",".","i","o","/","p">>,
    <<"H","T","T","P","S",":","/","/","a",".","b">>,
    <<"h","t","t","p",":","/","/">> }

RECURSIVE Sentences(_)
Sentences(n) ==
  IF n = 1 THEN Words
  ELSE Sentences(n - 1) \cup {s \o <<" ">> \o w : s \in Sentences(n - 1), w \in Words}

WideInputs == Sentences(MaxWords)

\* what structured_llm.invoke does: it raises, or returns a classification
\* whose action_type is any string (models.py declares it str)
ClassifierOutcomes ==
  {[kind |-> "raise"]} \cup
  {[kind |-> "ok", action_type |-> a] :
     a \in {"search_products", "extract_from_url", "default_chat", "chat"}}

TavilyResult1 ==
  [title |-> <<"T","V"," ","A">>,
   url |-> <<"h","t","t","p","s",":","/","/","w","w","w",".","a","m","a","z","o","n",".","c","o","m","/","t","v">>,
   content |-> <<"P","r","i","c","e",":"," ","$","1","2","0",","," ","w","a","r","r","a","n","t","y">>]
TavilyResult2 ==
  [title |-> <<"T","V"," ","B">>,
   url |-> <<"h","t","t","p","s",":","/","/","e","b","a","y",".","c","o","m","/","i">>,
   content |-> <<"o","n","l","y"," ","8","0"," ","d","o","l","l","a","r","s">>]
\* a result without a title is skipped
TavilyResult0 == [title |-> << >>, url |-> TavilyResult2.url, content |-> << >>]

\* what tavily_search.invoke does
TavilyOutcomes ==
  {[kind |-> "raise"], [kind |-> "text"]} \cup
  {[kind |-> "ok", results |-> r] :
     r \in { << >>, <<TavilyResult1, TavilyResult2>>, <<TavilyResult0, TavilyResult2>> }}

\* what the page fetch does
PageOutcomes ==
  { [kind |-> "raise"],
    [kind |-> "ok", title |-> Some(<<"M","u","g">>), price |-> Some(<<"$","2","0">>), description |-> None],
    [kind |-> "ok", title |-> None, price |-> None, description |-> None] }

\* what llm.invoke does in _generate_response
GenerateOutcomes ==
  { [kind |-> "raise"],
    [kind |-> "ok", content |-> <<"o","k">>],
    [kind |-> "ok", content |->
       <<"f","r","o","m"," ","a",".","i","o",":"," ","h","t","t","p",":","/","/","a",".","i","o","/","x">>] }

(***************************************************************************)
(* State.                                                                  *)
(***************************************************************************)
VARIABLES
  threads,   \* MemorySaver: per thread id the checkpointed AgentState
  tavily,    \* WebSearcher.tavily_search is set (TAVILY_API_KEY configured)
  pc,        \* node of the graph the running invocation is at, or "idle"
  cur,       \* thread id of the running (or last) invocation
  path,      \* nodes the running (or last) invocation has executed
  events,    \* what happened in the running (or last) invocation
  msgs0,     \* messages of the thread when the invocation started
  prompt,    \* prompt handed to llm.invoke by _generate_response
  outcome,   \* how the last chat call ended: its return value, or raised
  chats,     \* number of chat calls made
  scope,     \* what this behaviour draws from: threads, inputs, generated, chats
  ctx,       \* a ChatContext
  added,     \* the messages added to ctx, in order
  cleared,   \* thread ids on which clear_thread completed, with no chat since
  history,   \* what the last get_chat_history call returned, with its thread id
  inv,       \* chat calls made by concurrent callers: where each is, the state it works on
  offers_in, \* the offers a caller hands to OfferComparator.compare_offers
  compared,  \* what compare_offers did with them: its result, or that it raised
  calls      \* the chat calls made so far, in order, each with how it ended (kept when scope.log)

agentVars == <<threads, tavily, pc, cur, path, events, msgs0, prompt, outcome, chats, scope,
               cleared, history, inv, offers_in, compared, calls>>
ctxVars == <<ctx, added>>
agentVarsOfChat ==
  <<threads, tavily, pc, cur, path, events, msgs0, prompt, outcome, chats, scope, cleared, history, inv, calls>>
vars == <<threads, tavily, pc, cur, path, events, msgs0, prompt, outcome, chats, scope, ctx, added,
          cleared, history, inv, offers_in, compared, calls>>

\* the chat calls that concurrent callers make
Invocations == 1..MaxConcurrent

\* AgentState of a thread that has no checkpoint
NoCheckpoint ==
  [present |-> FALSE, messages |-> << >>, user_input |-> << >>, action_type |-> "",
   search_results |-> << >>, comparison_result |-> None, citations |-> {}]

HumanMessage(content) == [role |-> "user", content |-> content]
AIMessage(content) == [role |-> "assistant", content |-> content]

\* models.py: ChatContext()
ChatContext(max_turns) == [messages |-> << >>, max_turns |-> max_turns]

AgentInit(sc) ==
  /\ threads = [t \in ThreadIds |-> NoCheckpoint]
  /\ tavily \in sc.tavily
  /\ pc = "idle"
  /\ cur = "t1"
  /\ path = << >>
  /\ events = {}
  /\ msgs0 = << >>
  /\ prompt = None
  /\ outcome = [kind |-> "none"]
  /\ chats = 0
  /\ scope = sc
  /\ cleared = {}
  /\ history = None
  /\ inv = [i \in Invocations |-> [pc |-> "idle", thread_id |-> "t1", state |-> NoCheckpoint]]
  /\ calls = << >>

\* several invocations on one thread, each of a few inputs
Init ==
  /\ AgentInit([threads |-> {"t1"}, inputs |-> DeepInputs, tavily |-> BOOLEAN,
                generated |-> {g \in GenerateOutcomes : g.kind = "raise" \/ g.content = <<"o","k">>},
                chats |-> MaxChats, log |-> FALSE])
  /\ ctx = ChatContext(MAX_CONTEXT_TURNS)
  /\ added = << >>
  /\ offers_in = << >>
  /\ compared = None

\* one invocation on a fresh thread, of any input
InitWide ==
  /\ AgentInit([threads |-> {"t1"}, inputs |-> WideInputs, tavily |-> BOOLEAN,
                generated |-> GenerateOutcomes, chats |-> 1, log |-> FALSE])
  /\ ctx = ChatContext(MAX_CONTEXT_TURNS)
  /\ added = << >>
  /\ offers_in = << >>
  /\ compared = None

\* no invocation: a ChatContext of any capacity, filled by add_message
InitCtx ==
  /\ AgentInit([threads |-> {}, inputs |-> {}, tavily |-> {FALSE}, generated |-> {}, chats |-> 0, log |-> FALSE])
  /\ \E max_turns \in 0..MaxTurnsBound : ctx = ChatContext(max_turns)
  /\ added = << >>
  /\ offers_in = << >>
  /\ compared = None

(***************************************************************************)
(* ProductChatAgent.chat: the initial state and the start of the graph.    *)
(* The checkpointer merges the input into the thread's state: messages are *)
(* appended (add_messages), every other key is overwritten.                *)
(***************************************************************************)
\* every thread id is given the state
PutCheckpointAll(store, thread_id, state) == [t \in DOMAIN store |-> state]

\* MemorySaver keeps one state per thread id (config of chat, line 277)
PutCheckpoint(store, thread_id, state) == [store EXCEPT ![thread_id] = state]

\* the reducer of AgentState.messages keeps nothing of the stored list
add_messages_replace(left, right) == right

\* AgentState.messages is Annotated with add_messages (line 26): what a step
\* writes is appended to the stored list
add_messages(left, right) == left \o right

\* chat lines 267-274
initial_state(user_input) ==
  [present |-> TRUE,
   messages |-> <<HumanMessage(user_input)>>,
   user_input |-> user_input,
   action_type |-> "",
   search_results |-> << >>,
   comparison_result |-> None,
   citations |-> {}]

\* the offers, the comparison and the citations stored for the thread survive the input
InputMergeKeepsOffers(stored, input) ==
  [input EXCEPT !.messages = add_messages(stored.messages, input.messages),
                !.search_results = stored.search_results,
                !.comparison_result = stored.comparison_result,
                !.citations = stored.citations]

\* graph.invoke(initial_state, config), line 280: the input is written over
\* the thread's stored state, key by key; only messages has a reducer
InputMerge(stored, input) ==
  [input EXCEPT !.messages = add_messages(stored.messages, input.messages)]

\* the record of a chat call that has started
LogCall(log, thread_id, user_input) ==
  Append(log, [thread_id |-> thread_id, user_input |-> user_input, outcome |-> [kind |-> "none"]])

\* the record of the running chat call, once it has returned or raised
LogOutcome(log, out) ==
  IF log = << >> THEN log ELSE [log EXCEPT ![Len(log)].outcome = out]

Chat(thread_id, user_input) ==
  /\ pc = "idle"
  /\ chats < scope.chats
  /\ thread_id \in scope.threads
  /\ user_input \in scope.inputs
  /\ threads' = PutCheckpoint(threads, thread_id,
                               InputMerge(threads[thread_id], initial_state(user_input)))
  /\ pc' = "analyze_input"
  /\ cur' = thread_id
  /\ path' = << >>
  /\ events' = IF thread_id \in cleared THEN {"thread_was_cleared"} ELSE {}
  /\ cleared' = cleared \ {thread_id}
  /\ history' = None
  /\ msgs0' = threads[thread_id].messages
  /\ prompt' = None
  /\ outcome' = [kind |-> "none"]
  /\ chats' = chats + 1
  /\ calls' = IF scope.log THEN LogCall(calls, thread_id, user_input) ELSE calls
  /\ UNCHANGED <<tavily, scope, ctx, added, inv, offers_in, compared>>

\* _build_graph: the mapping of the conditional edges from analyze_input
RouteMap ==
  [search_products |-> "search_products",
   extract_from_url |-> "extract_from_url",
   default_chat |-> "generate_response"]

\* _route_input
_route_input(state) == state.action_type

\* _analyze_input and the conditional edge that follows it.  A label that is
\* no key of the mapping makes the graph raise (KeyError) out of chat; the
\* writes of the failed step are not applied to the checkpoint.
AnalyzeInput(classification) ==
  /\ pc = "analyze_input"
  /\ LET action_type ==
           IF classification.kind = "ok" THEN classification.action_type
           ELSE _fallback_classification(threads[cur].user_input)
         state == [threads[cur] EXCEPT !.action_type = action_type]
     IN  /\ path' = Append(path, "analyze_input")
         /\ events' = events \cup (IF classification.kind = "raise" THEN {"classifier_raised"} ELSE {})
         /\ IF _route_input(state) \in DOMAIN RouteMap
            THEN /\ threads' = [threads EXCEPT ![cur] = state]
                 /\ pc' = RouteMap[_route_input(state)]
                 /\ UNCHANGED <<outcome, calls>>
            ELSE /\ pc' = "idle"
                 /\ outcome' = [kind |-> "raised", error |-> "KeyError"]
                 /\ calls' = LogOutcome(calls, outcome')
                 /\ UNCHANGED threads
  /\ UNCHANGED <<tavily, cur, msgs0, prompt, chats, scope, ctx, added, cleared, history, inv, offers_in, compared>>

\* _search_products
SearchProducts(tavily_outcome) ==
  /\ pc = "search_products"
  /\ threads' = [threads EXCEPT ![cur].search_results =
       search_products(tavily, threads[cur].user_input, tavily_outcome)]
  /\ path' = Append(path, "search_products")
  /\ events' = events \cup
       (IF tavily /\ tavily_outcome.kind = "raise" THEN {"search_raised"} ELSE {})
  /\ pc' = "compare_offers"
  /\ UNCHANGED <<tavily, cur, msgs0, prompt, outcome, chats, scope, ctx, added, cleared, history, inv, offers_in, compared, calls>>

\* _extract_from_url
ExtractFromUrl(page) ==
  /\ pc = "extract_from_url"
  /\ LET url_match == UrlSearch(threads[cur].user_input)
         search_results ==
           IF url_match # None THEN extract_from_url(url_match[1], page) ELSE << >>
     IN  /\ threads' = [threads EXCEPT ![cur].search_results = search_results]
         /\ events' = events \cup
              (IF url_match # None /\ page.kind = "raise" THEN {"fetch_raised"} ELSE {})
  /\ path' = Append(path, "extract_from_url")
  /\ pc' = "generate_response"
  /\ UNCHANGED <<tavily, cur, msgs0, prompt, outcome, chats, scope, ctx, added, cleared, history, inv, offers_in, compared, calls>>

\* the guard is missing: the comparator is called on every list
CompareGuardAlways(search_results) == TRUE

\* _compare_offers line 182: the comparator is called on a non-empty list only
CompareGuard(search_results) == search_results # << >>

\* the result of the comparator is dropped
ComparisonSkipped(called, comparator_raises, result) == None

\* _compare_offers lines 180-187: the comparison_result the step returns.
\* An error raised inside the comparator (it is caught as Exception) is an
\* input of the step.
ComparisonOf(called, comparator_raises, result) ==
  IF called /\ ~comparator_raises /\ result.kind = "ok"
  THEN Some(result.value)
  ELSE None

\* _compare_offers
CompareOffers(comparator_raises) ==
  /\ pc = "compare_offers"
  /\ threads' = [threads EXCEPT ![cur].comparison_result =
       ComparisonOf(CompareGuard(threads[cur].search_results), comparator_raises,
                    compare_offers(threads[cur].search_results))]
  /\ events' = events
       \cup (IF CompareGuard(threads[cur].search_results) THEN {"comparator_called"} ELSE {})
       \cup (IF /\ CompareGuard(threads[cur].search_results)
                /\ (comparator_raises \/ compare_offers(threads[cur].search_results).kind = "raise")
             THEN {"comparator_raised"} ELSE {})
  /\ path' = Append(path, "compare_offers")
  /\ pc' = "generate_response"
  /\ UNCHANGED <<tavily, cur, msgs0, prompt, outcome, chats, scope, ctx, added, cleared, history, inv, offers_in, compared, calls>>

\* the context of the prompt that _generate_response assembles
PromptOf(state) ==
  [history |-> [i \in 1..Len(state.messages) |->
                  <<IF state.messages[i].role = "user" THEN "User" ELSE "Assistant",
                    state.messages[i].content>>],
   offers |-> [i \in 1..Len(state.search_results) |->
                 LET offer == state.search_results[i]
                 IN  [title |-> offer.title,
                      price |-> IF Truthy(offer.price) THEN offer.price ELSE None,
                      source |-> offer.source,
                      description |->
                        IF Truthy(offer.description)
                        THEN Some(Slice(offer.description[1], 0, 100) \o <<".",".",".">>)
                        ELSE None]],
   best |-> IF state.comparison_result # None
            THEN Some([title |-> state.comparison_result[1].best_offer.title,
                       price |-> state.comparison_result[1].best_offer.price,
                       source |-> state.comparison_result[1].best_offer.source,
                       reasoning |-> state.comparison_result[1].reasoning])
            ELSE None,
   request |-> state.user_input]

\* a failed generation is replaced by an apology of the assistant
GenerateWritesApology(state, generated) ==
  [state EXCEPT !.messages =
     @ \o <<AIMessage(IF generated.kind = "ok" THEN generated.content
                      ELSE <<"s","o","r","r","y">>)>>,
                !.citations = IF generated.kind = "ok"
                              THEN _extract_citations(generated.content) ELSE {}]

\* _generate_response lines 236-245: the state after the writes of the step;
\* when llm.invoke raises the step writes nothing
GenerateWrites(state, generated) ==
  IF generated.kind = "ok"
  THEN [state EXCEPT !.messages = @ \o <<AIMessage(generated.content)>>,
                     !.citations = _extract_citations(generated.content)]
  ELSE state

\* _generate_response; when llm.invoke raises the error leaves chat
GenerateResponse(generated) ==
  /\ pc = "generate_response"
  /\ generated \in scope.generated
  /\ prompt' = Some(PromptOf(threads[cur]))
  /\ path' = Append(path, "generate_response")
  /\ threads' = [threads EXCEPT ![cur] = GenerateWrites(@, generated)]
  /\ IF generated.kind = "ok"
     THEN /\ pc' = "END"
          /\ UNCHANGED <<outcome, events, calls>>
     ELSE /\ pc' = "idle"
          /\ outcome' = [kind |-> "raised", error |-> "generate"]
          /\ events' = events \cup {"generate_raised"}
          /\ calls' = LogOutcome(calls, outcome')
  /\ UNCHANGED <<tavily, cur, msgs0, chats, scope, ctx, added, cleared, history, inv, offers_in, compared>>

\* chat line 283: the content of the last message, or "" when there is none
ResponseOf(final_state) ==
  IF final_state.messages # << >>
  THEN final_state.messages[Len(final_state.messages)].content
  ELSE << >>

\* chat: the value returned from the final state of the graph
ChatReturn ==
  /\ pc = "END"
  /\ LET final_state == threads[cur]
     IN  outcome' =
           [kind |-> "returned",
            value |-> [response |-> ResponseOf(final_state),
                       citations |-> final_state.citations,
                       search_results |-> final_state.search_results,
                       comparison_result |-> final_state.comparison_result,
                       thread_id |-> cur]]
  /\ path' = Append(path, "END")
  /\ pc' = "idle"
  /\ calls' = LogOutcome(calls, outcome')
  /\ UNCHANGED <<threads, tavily, cur, events, msgs0, prompt, chats, scope, ctx, added, cleared, history, inv, offers_in, compared>>

Next ==
  \/ \E t \in ThreadIds, u \in DeepInputs \cup WideInputs : Chat(t, u)
  \/ \E c \in ClassifierOutcomes : AnalyzeInput(c)
  \/ \E o \in TavilyOutcomes : SearchProducts(o)
  \/ \E p \in PageOutcomes : ExtractFromUrl(p)
  \/ \E r \in BOOLEAN : CompareOffers(r)
  \/ \E g \in GenerateOutcomes : GenerateResponse(g)
  \/ ChatReturn

Spec == Init /\ [][Next]_vars

SpecWide == InitWide /\ [][Next]_vars

(***************************************************************************)
(* ProductChatAgent.get_chat_history and clear_thread, called between      *)
(* invocations on any of the thread ids.                                   *)
(***************************************************************************)
\* get_chat_history: the turns of the thread's state (the timestamp of a turn
\* is the time of the call and is left out)
get_chat_history(store, thread_id) ==
  IF store[thread_id].present /\ store[thread_id].messages # << >>
  THEN [i \in 1..Len(store[thread_id].messages) |->
          [role |-> store[thread_id].messages[i].role,
           content |-> store[thread_id].messages[i].content]]
  ELSE << >>

GetChatHistory(thread_id) ==
  /\ pc = "idle"
  /\ thread_id \in scope.threads
  /\ history' = Some([thread_id |-> thread_id, turns |-> get_chat_history(threads, thread_id)])
  /\ UNCHANGED <<threads, tavily, pc, cur, path, events, msgs0, prompt, outcome, chats, scope,
                 ctx, added, cleared, inv, offers_in, compared, calls>>

\* self.memory.delete_state(config), line 317: MemorySaver has no attribute
\* delete_state, so the call raises AttributeError
delete_state(store, thread_id) == [kind |-> "raise", error |-> "AttributeError"]

\* clear_thread: an error of the call is caught and printed (lines 319-320)
\* and the store is left as it was
clear_thread(store, thread_id) ==
  IF delete_state(store, thread_id).kind = "raise" THEN store
  ELSE delete_state(store, thread_id).store

ClearThread(thread_id) ==
  /\ pc = "idle"
  /\ thread_id \in scope.threads
  /\ threads' = clear_thread(threads, thread_id)
  /\ cleared' = cleared \cup {thread_id}
  /\ history' = None
  /\ UNCHANGED <<tavily, pc, cur, path, events, msgs0, prompt, outcome, chats, scope, ctx, added, inv, offers_in, compared, calls>>

\* a few invocations on two thread ids, with history reads and clears between
InitThreads ==
  /\ AgentInit([threads |-> ThreadIds, inputs |-> {<<"h","i">>}, tavily |-> {FALSE},
                generated |-> {g \in GenerateOutcomes : g.kind = "raise" \/ g.content = <<"o","k">>},
                chats |-> MaxThreadChats, log |-> FALSE])
  /\ ctx = ChatContext(MAX_CONTEXT_TURNS)
  /\ added = << >>
  /\ offers_in = << >>
  /\ compared = None

NextThreads ==
  \/ Next
  \/ \E t \in ThreadIds : GetChatHistory(t)
  \/ \E t \in ThreadIds : ClearThread(t)

SpecThreads == InitThreads /\ [][NextThreads]_vars

(***************************************************************************)
(* chat called again and again, one call after the other, on two thread    *)
(* ids; every call and how it ended is recorded, and the history of a      *)
(* thread is read between the calls.                                       *)
(***************************************************************************)
InitSeq ==
  /\ AgentInit([threads |-> ThreadIds, inputs |-> DeepInputs, tavily |-> {FALSE},
                generated |-> {g \in GenerateOutcomes : g.kind = "raise" \/ g.content = <<"o","k">>},
                chats |-> MaxSeqChats, log |-> TRUE])
  /\ ctx = ChatContext(MAX_CONTEXT_TURNS)
  /\ added = << >>
  /\ offers_in = << >>
  /\ compared = None

NextSeq ==
  \/ Next
  \/ \E t \in ThreadIds : GetChatHistory(t)

SpecSeq == InitSeq /\ [][NextSeq]_vars

(***************************************************************************)
(* chat called by concurrent callers.  Neither chat nor __init__ takes a   *)
(* lock.  graph.invoke reads the thread's state once, when it starts, and  *)
(* works on its own copy; after the input and after every node it stores   *)
(* the copy as the thread's state, so the state stored last is the state   *)
(* of the thread.                                                          *)
(***************************************************************************)
GraphNodes ==
  {"analyze_input", "search_products", "extract_from_url", "compare_offers", "generate_response"}

\* what the environment answers to the calls a node makes
NodeInputs(node) ==
  IF node = "analyze_input" THEN {[classification |-> c] : c \in ClassifierOutcomes}
  ELSE IF node = "search_products" THEN {[tavily_outcome |-> o] : o \in TavilyOutcomes}
  ELSE IF node = "extract_from_url" THEN {[page |-> p] : p \in PageOutcomes}
  ELSE IF node = "compare_offers" THEN {[comparator_raises |-> r] : r \in BOOLEAN}
  ELSE IF node = "generate_response" THEN {[generated |-> g] : g \in scope.generated}
  ELSE {}

\* one node of the graph run on a state: the state with the node's writes and
\* the node that follows ("raised" when the error leaves graph.invoke)
RunNode(node, state, tavily_search, in) ==
  IF node = "analyze_input"
  THEN LET action_type ==
             IF in.classification.kind = "ok" THEN in.classification.action_type
             ELSE _fallback_classification(state.user_input)
           written == [state EXCEPT !.action_type = action_type]
       IN  IF _route_input(written) \in DOMAIN RouteMap
           THEN [state |-> written, next |-> RouteMap[_route_input(written)]]
           ELSE [state |-> state, next |-> "raised"]
  ELSE IF node = "search_products"
  THEN [state |-> [state EXCEPT !.search_results =
                     search_products(tavily_search, state.user_input, in.tavily_outcome)],
        next |-> "compare_offers"]
  ELSE IF node = "extract_from_url"
  THEN [state |-> [state EXCEPT !.search_results =
                     IF UrlSearch(state.user_input) # None
                     THEN extract_from_url(UrlSearch(state.user_input)[1], in.page)
                     ELSE << >>],
        next |-> "generate_response"]
  ELSE IF node = "compare_offers"
  THEN [state |-> [state EXCEPT !.comparison_result =
                     ComparisonOf(CompareGuard(state.search_results), in.comparator_raises,
                                  compare_offers(state.search_results))],
        next |-> "generate_response"]
  ELSE [state |-> GenerateWrites(state, in.generated),
        next |-> IF in.generated.kind = "ok" THEN "END" ELSE "raised"]

\* chat, lines 266-280: graph.invoke merges the input into the state it read
ConcChat(i, thread_id, user_input) ==
  /\ inv[i].pc = "idle"
  /\ thread_id \in scope.threads
  /\ user_input \in scope.inputs
  /\ LET state == [present |-> TRUE,
                   messages |-> threads[thread_id].messages \o <<HumanMessage(user_input)>>,
                   user_input |-> user_input,
                   action_type |-> "",
                   search_results |-> << >>,
                   comparison_result |-> None,
                   citations |-> {}]
     IN  /\ inv' = [inv EXCEPT ![i] = [pc |-> "analyze_input", thread_id |-> thread_id,
                                       state |-> state]]
         /\ threads' = PutCheckpoint(threads, thread_id, state)
  /\ UNCHANGED <<tavily, pc, cur, path, events, msgs0, prompt, outcome, chats, scope, ctx, added,
                 cleared, history, offers_in, compared, calls>>

\* one node of a running call
ConcStep(i, in) ==
  /\ inv[i].pc \in GraphNodes
  /\ in \in NodeInputs(inv[i].pc)
  /\ LET r == RunNode(inv[i].pc, inv[i].state, tavily, in)
     IN  /\ inv' = [inv EXCEPT ![i].pc = r.next, ![i].state = r.state]
         /\ threads' = IF r.next = "raised" THEN threads
                       ELSE PutCheckpoint(threads, inv[i].thread_id, r.state)
  /\ UNCHANGED <<tavily, pc, cur, path, events, msgs0, prompt, outcome, chats, scope, ctx, added,
                 cleared, history, offers_in, compared, calls>>

\* concurrent callers of chat, each with an input of its own
ConcInputs ==
  { <<"h","i">>, <<"h","t","t","p",":","/","/","s","h","o","p",".","i","o","/","p">> }

InitConc ==
  /\ AgentInit([threads |-> ThreadIds, inputs |-> ConcInputs, tavily |-> {FALSE},
                generated |-> {g \in GenerateOutcomes : g.kind = "raise" \/ g.content = <<"o","k">>},
                chats |-> 0, log |-> FALSE])
  /\ ctx = ChatContext(MAX_CONTEXT_TURNS)
  /\ added = << >>
  /\ offers_in = << >>
  /\ compared = None

NextConc ==
  \/ \E i \in Invocations, t \in ThreadIds, u \in ConcInputs : ConcChat(i, t, u)
  \/ \E i \in Invocations, in \in UNION {NodeInputs(n) : n \in GraphNodes} : ConcStep(i, in)

SpecConc == InitConc /\ [][NextConc]_vars

(***************************************************************************)
(* models.py: ChatContext.add_message                                      *)
(***************************************************************************)
\* the messages a caller adds
CtxMessages ==
  { [role |-> "user", content |-> <<"a">>, citations |-> None],
    [role |-> "user", content |-> <<"b">>, citations |-> None],
    [role |-> "assistant", content |-> <<"b">>, citations |-> None] }

\* s[a:] of Python: a negative start counts from the end, and -0 is 0
SliceFrom(s, a) ==
  LET start == IF a < 0 THEN (IF Len(s) + a < 0 THEN 0 ELSE Len(s) + a)
               ELSE (IF a > Len(s) THEN Len(s) ELSE a)
  IN  SubSeq(s, start + 1, Len(s))

add_message(self, message) ==
  LET appended == Append(self.messages, message)
  IN  IF Len(appended) > self.max_turns * 2
      THEN [self EXCEPT !.messages = SliceFrom(appended, -(self.max_turns * 2))]
      ELSE [self EXCEPT !.messages = appended]

AddMessage(message) ==
  /\ Len(added) < 2 * ctx.max_turns + MaxExtra
  /\ ctx' = add_message(ctx, message)
  /\ added' = Append(added, message)
  /\ UNCHANGED agentVars

NextCtx == \E m \in CtxMessages : AddMessage(m)

SpecCtx == InitCtx /\ [][NextCtx]_vars

(***************************************************************************)
(* OfferComparator.compare_offers called on a list of offers, and called   *)
(* again on the list with two neighbours exchanged.                        *)
(***************************************************************************)
OfferA ==
  ProductOffer(<<"A">>, Some(<<"$","2","0">>), <<"u">>, <<"a","m","a","z","o","n",".","c","o","m">>, None)
\* as OfferA but for its title
OfferB == [OfferA EXCEPT !.title = <<"B">>]
\* a price of zero
OfferC ==
  [ProductOffer(<<"C">>, Some(<<"$","0",".","0","0">>), <<"u">>, <<"s","h","o","p",".","i","o">>, None)
     EXCEPT !.availability = Some(<<"I","n"," ","S","t","o","c","k">>), !.rating = Some(45)]
\* a price without a number
OfferD ==
  [ProductOffer(<<"D">>, Some(<<"F","r","e","e">>), <<"u">>, <<"e","b","a","y",".","c","o","m">>, None)
     EXCEPT !.availability = Some(<<"u","n","a","v","a","i","l","a","b","l","e">>)]
\* a price beyond 1000
OfferE ==
  [ProductOffer(<<"E">>, Some(<<"$","1",",","5","0","0">>), <<"u">>,
                <<"a","m","a","z","o","n",".","c","o","m">>,
                Some(<<"g","e","n","u","i","n","e",","," ","w","a","r","r","a","n","t","y">>))
     EXCEPT !.availability = Some(<<"O","u","t"," ","o","f"," ","s","t","o","c","k">>)]
OfferF ==
  [ProductOffer(<<"F">>, Some(<<"$","1","0">>), <<"u">>, <<"s","h","o","p",".","i","o">>, None)
     EXCEPT !.availability = Some(<<"l","i","m","i","t","e","d">>), !.rating = Some(38)]

OfferPool == {OfferA, OfferB, OfferC, OfferD, OfferE, OfferF}

\* the lists of at most MaxOffers offers
OfferLists == UNION {[1..n -> OfferPool] : n \in 0..MaxOffers}

InitCmp ==
  /\ AgentInit([threads |-> {}, inputs |-> {}, tavily |-> {FALSE}, generated |-> {}, chats |-> 0, log |-> FALSE])
  /\ ctx = ChatContext(MAX_CONTEXT_TURNS)
  /\ added = << >>
  /\ offers_in \in OfferLists
  /\ compared = None

\* comparator.compare_offers(offers)
CompareCall ==
  /\ compared = None
  /\ compared' = Some(compare_offers(offers_in))
  /\ UNCHANGED <<agentVarsOfChat, ctx, added, offers_in>>

\* the caller exchanges offers k and k + 1 and calls compare_offers again
ReorderCall(k) ==
  /\ compared # None
  /\ k \in 1..(Len(offers_in) - 1)
  /\ offers_in' = [offers_in EXCEPT ![k] = offers_in[k + 1], ![k + 1] = offers_in[k]]
  /\ compared' = Some(compare_offers(offers_in'))
  /\ UNCHANGED <<agentVarsOfChat, ctx, added>>

NextCmp ==
  \/ CompareCall
  \/ \E k \in 1..MaxOffers : ReorderCall(k)

SpecCmp == InitCmp /\ [][NextCmp]_vars

(***************************************************************************)
(* Properties of the state machine (specifications Spec and SpecWide).     *)
(***************************************************************************)
\* _build_graph lines 63-84: the three paths the edges of the graph allow
Paths ==
  { <<"analyze_input", "search_products", "compare_offers", "generate_response", "END">>,
    <<"analyze_input", "extract_from_url", "generate_response", "END">>,
    <<"analyze_input", "generate_response", "END">> }

\* C1: every invocation runs along one of the three paths, visits no node
\* twice, ends with generate_response before the end and, unless the
\* generation call fails, reaches the end.
C1_OnePathToTerminal ==
  /\ \E p \in Paths : Len(path) <= Len(p) /\ SubSeq(p, 1, Len(path)) = path
  /\ (pc = "idle" /\ chats > 0 /\ "generate_raised" \notin events) => path \in Paths

\* C2: after analyze_input the label selects the next state: search_products
\* and extract_from_url their own nodes, every other label generate_response.
C2_LabelSelectsNext ==
  [][\A c \in ClassifierOutcomes :
       (c.kind = "ok" /\ AnalyzeInput(c)) =>
         pc' = (IF c.action_type = "search_products" THEN "search_products"
                ELSE IF c.action_type = "extract_from_url" THEN "extract_from_url"
                ELSE "generate_response")]_vars

\* _fallback_classification lines 133-135: the input holds a URL
HasUrl(text) == \E i \in 1..Len(text) : UrlMatchAt(text, i)
\* _fallback_classification lines 139-141: the lower-cased input holds a keyword
HasKeyword(text) == \E k \in 1..Len(search_keywords) : Contains(Lower(text), search_keywords[k])

\* C3: when the classifier raises, the invocation goes on (nothing is raised
\* out of analyze_input) with the label of the fallback rule: extract_from_url
\* if the input holds a URL, else search_products if it holds a keyword, else
\* default_chat.
C3_FallbackLabel ==
  ("classifier_raised" \in events /\ path # << >>) =>
    /\ threads[cur].action_type =
         (IF HasUrl(threads[cur].user_input) THEN "extract_from_url"
          ELSE IF HasKeyword(threads[cur].user_input) THEN "search_products"
          ELSE "default_chat")
    /\ threads[cur].action_type \in {"extract_from_url", "search_products", "default_chat"}
    /\ (Len(path) = 1 =>
          pc = (IF threads[cur].action_type = "default_chat" THEN "generate_response"
                ELSE threads[cur].action_type))
    /\ (outcome.kind = "raised" => outcome.error = "generate")

\* C3 witness: the classifier raised on an input that holds a URL and a keyword
C3_Witness ==
  /\ "classifier_raised" \in events
  /\ path # << >>
  /\ HasUrl(threads[cur].user_input)
  /\ HasKeyword(threads[cur].user_input)
  /\ pc = "extract_from_url"

\* C4 as stated: whenever generate_response starts with offers found by the
\* search step or the extract step, the comparator has been run on them.
C4_ComparedBeforeResponse ==
  (pc = "generate_response" /\ threads[cur].search_results # << >>) =>
    "comparator_called" \in events

\* C4 amended: offers found by the search step are compared before
\* generate_response (which sees the comparison of exactly those offers unless
\* the comparator raised); offers found by the extract step are not compared.
C4_SearchOffersCompared ==
  (pc = "generate_response" /\ Len(path) >= 2) =>
    /\ (path[2] = "search_products" /\ threads[cur].search_results # << >>) =>
         /\ "comparator_called" \in events
         /\ "comparator_raised" \notin events =>
              /\ threads[cur].comparison_result # None
              /\ threads[cur].comparison_result[1].all_offers = threads[cur].search_results
    /\ path[2] = "extract_from_url" =>
         /\ "comparator_called" \notin events
         /\ threads[cur].comparison_result = None

\* C4 witness: generate_response starts with compared offers of a search
C4_Witness ==
  /\ pc = "generate_response"
  /\ Len(path) >= 2
  /\ path[2] = "search_products"
  /\ Len(threads[cur].search_results) = 2
  /\ threads[cur].comparison_result # None

\* C5: the comparator is called on a non-empty list only, and when it raises
\* the comparison_result stays None and the invocation goes on to
\* generate_response.
C5_ComparatorGuarded ==
  /\ "comparator_called" \in events => threads[cur].search_results # << >>
  /\ "comparator_raised" \in events =>
       /\ threads[cur].comparison_result = None
       /\ outcome.kind = "raised" => outcome.error = "generate"
       /\ pc = "generate_response" \/ path[Len(path)] \in {"generate_response", "END"}

\* C5 witness: the comparator raised and generate_response is next
C5_Witness ==
  /\ "comparator_raised" \in events
  /\ pc = "generate_response"
  /\ threads[cur].search_results # << >>

C7_GenerationErrorSurfaced ==
  "generate_raised" \in events =>
    /\ pc = "idle"
    /\ outcome = [kind |-> "raised", error |-> "generate"]
    /\ threads[cur].messages = msgs0 \o <<HumanMessage(threads[cur].user_input)>>

\* C7 witness: the generation call raised on a thread that had a conversation
C7_Witness ==
  /\ "generate_raised" \in events
  /\ Len(msgs0) >= 2

\* C10: the conversation stored for a thread never holds more than
\* MAX_CONTEXT_TURNS * 2 turns.
C10_ConversationBounded ==
  /\ \A t \in ThreadIds : Len(threads[t].messages) <= MAX_CONTEXT_TURNS * 2
  /\ prompt # None => Len(prompt[1].history) <= MAX_CONTEXT_TURNS * 2

(***************************************************************************)
(* Properties of ChatContext (specification SpecCtx).                      *)
(***************************************************************************)
\* C8: a ChatContext never holds more than max_turns * 2 messages.
C8_ContextBounded == Len(ctx.messages) <= ctx.max_turns * 2

\* C9: once more than 2 * max_turns messages were added, the context holds
\* exactly the last 2 * max_turns of them, in the order they were added.
C9_LastTurnsKept ==
  Len(added) > 2 * ctx.max_turns =>
    ctx.messages = SubSeq(added, Len(added) - 2 * ctx.max_turns + 1, Len(added))

(***************************************************************************)
(* Properties of the thread store (specification SpecThreads).             *)
(***************************************************************************)
\* C11: after clear_thread completed on a thread id its state is empty:
\* get_chat_history returns no turns for it and the next chat on it starts
\* with no earlier turn.
C11_ClearEmptiesThread ==
  /\ \A t \in cleared : threads[t].messages = << >>
  /\ (history # None /\ history[1].thread_id \in cleared) => history[1].turns = << >>
  /\ "thread_was_cleared" \in events => msgs0 = << >>

\* C12: a step of a chat on thread id A, and a clear of A, leave the state of
\* every other thread id as it was, and the prompt of the chat renders the
\* conversation of A only.
C12_OtherThreadsUntouched ==
  [][/\ \A a \in ThreadIds :
          ClearThread(a) => \A b \in ThreadIds \ {a} : threads'[b] = threads[b]
     /\ (pc # "idle" \/ pc' # "idle") =>
          /\ \A b \in ThreadIds \ {cur'} : threads'[b] = threads[b]
          /\ prompt' # None => Len(prompt'[1].history) = Len(msgs0') + 1]_vars

\* C12 witness: a chat and a clear were made on t2 while t1 holds a conversation
C12_Witness ==
  /\ cur = "t2"
  /\ pc = "idle"
  /\ "t2" \in cleared
  /\ Len(threads["t2"].messages) = 2
  /\ Len(threads["t1"].messages) = 1
  /\ threads["t1"].present

(***************************************************************************)
(* Properties of concurrent callers (specification SpecConc).              *)
(***************************************************************************)
\* chat run alone, lines 266-280: the turns it adds to the conversation, the
\* user turn and, when a response was generated, the assistant turn
TurnsOf(call) ==
  IF call.pc = "END"
  THEN SubSeq(call.state.messages, Len(call.state.messages) - 1, Len(call.state.messages))
  ELSE <<HumanMessage(call.state.user_input)>>

\* the conversation after the calls of a sequence ran one after another
RECURSIVE SerialOf(_)
SerialOf(order) ==
  IF order = << >> THEN << >> ELSE TurnsOf(inv[Head(order)]) \o SerialOf(Tail(order))

\* the orders in which the calls of a set can run one after another
OrdersOf(S) ==
  {f \in [1..Cardinality(S) -> S] : \A a, b \in 1..Cardinality(S) : f[a] = f[b] => a = b}

\* C13: no two chat calls run their steps on one thread id at the same time,
\* and when no call is running on a thread id its stored conversation is that
\* of the finished calls run one after another in some order.
C13_SerializedPerThread ==
  /\ \A i, j \in Invocations :
       (i # j /\ inv[i].pc \in GraphNodes /\ inv[j].pc \in GraphNodes) =>
         inv[i].thread_id # inv[j].thread_id
  /\ \A t \in ThreadIds :
       (\A i \in Invocations : inv[i].thread_id = t => inv[i].pc \notin GraphNodes) =>
         threads[t].messages \in
           {SerialOf(f) : f \in OrdersOf({i \in Invocations :
                                            inv[i].thread_id = t /\ inv[i].pc # "idle"})}

(***************************************************************************)
(* Properties of OfferComparator (specification SpecCmp).                  *)
(***************************************************************************)
\* C14: for two or more offers the best offer has a score no other offer
\* exceeds, and of the offers with the maximal score it is the earliest.
C14_BestHasMaxScore ==
  (compared # None /\ Len(offers_in) >= 2) =>
    /\ compared[1].kind = "ok"
    /\ \A j \in 1..Len(offers_in) :
         _calculate_offer_score(offers_in[j])
           <= _calculate_offer_score(compared[1].value.best_offer)
    /\ compared[1].value.best_offer =
         offers_in[MinOf({k \in 1..Len(offers_in) :
                            \A j \in 1..Len(offers_in) :
                              _calculate_offer_score(offers_in[j])
                                <= _calculate_offer_score(offers_in[k])})]

\* C14 witness: the second and the third offer share the maximal score and
\* the second is the best offer
C14_Witness ==
  /\ compared # None
  /\ offers_in = <<OfferE, OfferB, OfferA>>
  /\ _calculate_offer_score(OfferB) = _calculate_offer_score(OfferA)
  /\ compared[1].value.best_offer = OfferB

\* C15: all_offers is the input in input order, best_offer is one of them,
\* and exchanging offers of pairwise distinct scores leaves best_offer as it
\* was.
C15_InputOrderKept ==
  [][(compared' # None /\ compared'[1].kind = "ok") =>
       /\ compared'[1].value.all_offers = offers_in'
       /\ \E k \in 1..Len(offers_in') : compared'[1].value.best_offer = offers_in'[k]
       /\ (/\ compared # None
           /\ \A i, j \in 1..Len(offers_in) :
                i # j => _calculate_offer_score(offers_in[i]) # _calculate_offer_score(offers_in[j]))
          => compared'[1].value.best_offer = compared[1].value.best_offer]_vars

\* C15 witness: offers of pairwise distinct scores, the best one last
C15_Witness ==
  /\ compared # None
  /\ offers_in = <<OfferD, OfferA, OfferF>>
  /\ compared[1].value.best_offer = OfferF
  /\ compared[1].value.all_offers = <<OfferD, OfferA, OfferF>>

\* C16: one offer is returned as the best offer with the fixed reasoning and
\* the singleton marker as the only metric; no offer makes the call raise.
C16_SingleAndEmpty ==
  compared # None =>
    /\ Len(offers_in) = 0 => compared[1] = [kind |-> "raise"]
    /\ Len(offers_in) = 1 =>
         compared[1] =
           [kind |-> "ok",
            value |-> [best_offer |-> offers_in[1],
                       all_offers |-> <<offers_in[1]>>,
                       comparison_metrics |-> [single_offer |-> TRUE],
                       reasoning |-> <<"Only one offer available">>]]

\* C16 witness: compare_offers was called on one offer
C16_Witness ==
  /\ compared # None
  /\ offers_in = <<OfferD>>
  /\ compared[1].value.best_offer = OfferD

\* _extract_numeric_price lines 83-85: the price string holds a numeric token
HasNumericToken(price) == Truthy(price) /\ \E i \in 1..Len(price[1]) : price[1][i] \in DigitChars

\* C17: total_offers counts the input; price_range is min, max and avg over
\* exactly the offers whose price parses to a number and is empty when none
\* parses; max_score is the score of the best offer and
\* min_score <= avg_score <= max_score.
C17_Metrics ==
  (compared # None /\ Len(offers_in) >= 2) =>
    LET m == compared[1].value.comparison_metrics
        parsed == {k \in 1..Len(offers_in) : HasNumericToken(offers_in[k].price)}
        value(k) == _extract_numeric_price(offers_in[k].price[1])
    IN  /\ m.total_offers = Len(offers_in)
        /\ (parsed = {}) <=> (m.price_range = None)
        /\ parsed # {} =>
             /\ m.price_range # None
             /\ \E k \in parsed : m.price_range[1].min = value(k)
             /\ \A k \in parsed : m.price_range[1].min <= value(k)
             /\ \E k \in parsed : m.price_range[1].max = value(k)
             /\ \A k \in parsed : value(k) <= m.price_range[1].max
             /\ m.price_range[1].avg.count = Cardinality(parsed)
        /\ m.score_distribution.max_score
             = _calculate_offer_score(compared[1].value.best_offer)
        /\ m.score_distribution.min_score * m.score_distribution.avg_score.count
             <= m.score_distribution.avg_score.sum
        /\ m.score_distribution.avg_score.sum
             <= m.score_distribution.max_score * m.score_distribution.avg_score.count

\* C18: a price with a numeric token of value p adds (1 - min(p/1000, 1)) * 40
\* to the score, p = 0 included; of two offers that differ in a parseable
\* price only the cheaper never scores lower.
C18_PriceContribution ==
  /\ \A k \in 1..Len(offers_in) :
       (compared # None /\ HasNumericToken(offers_in[k].price)) =>
         LET p == _extract_numeric_price(offers_in[k].price[1])
             full == 1000 * Pow10(PriceDecimals)
         IN  _calculate_offer_score(offers_in[k])
               - _calculate_offer_score([offers_in[k] EXCEPT !.price = None])
             = full - (IF p < full THEN p ELSE full)
  /\ \A k \in 1..Len(offers_in), o \in OfferPool :
       (compared # None /\ HasNumericToken(offers_in[k].price) /\ HasNumericToken(o.price)
        /\ _extract_numeric_price(offers_in[k].price[1]) <= _extract_numeric_price(o.price[1]))
       => _calculate_offer_score(offers_in[k])
            >= _calculate_offer_score([offers_in[k] EXCEPT !.price = o.price])

\* C19: a present availability string adds 0 when it says out of stock or
\* unavailable, else 10 when it holds an in-stock phrase, else 7 when it holds
\* a limited-stock phrase, else 5; the match ignores case.
C19_AvailabilityTiers ==
  \A k \in 1..Len(offers_in) :
    (compared # None /\ Truthy(offers_in[k].availability)) =>
      LET a == Lower(offers_in[k].availability[1])
          added_points == _calculate_offer_score(offers_in[k])
                            - _calculate_offer_score([offers_in[k] EXCEPT !.availability = None])
      IN  added_points =
            ScoreUnit *
              (IF \/ Contains(a, <<"o","u","t"," ","o","f"," ","s","t","o","c","k">>)
                  \/ Contains(a, <<"u","n","a","v","a","i","l","a","b","l","e">>)
               THEN 0
               ELSE IF \/ Contains(a, <<"i","n"," ","s","t","o","c","k">>)
                       \/ Contains(a, <<"a","v","a","i","l","a","b","l","e">>)
                       \/ Contains(a, <<"r","e","a","d","y"," ","t","o"," ","s","h","i","p">>)
               THEN 10
               ELSE IF \/ Contains(a, <<"l","i","m","i","t","e","d">>)
                       \/ Contains(a, <<"f","e","w"," ","l","e","f","t">>)
               THEN 7
               ELSE 5)

\* C20: the price clause of the reasoning is decided against the offers at
\* all other positions of the input that have a parseable price: "lowest
\* price" when the best offer's price is below their minimum, else
\* "competitive price" when it is below their mean, else no clause; no clause
\* either when the best offer or no other offer has a parseable price.
C20_PriceClause ==
  (compared # None /\ Len(offers_in) >= 2) =>
    LET best == MinOf({k \in 1..Len(offers_in) :
                         \A j \in 1..Len(offers_in) :
                           _calculate_offer_score(offers_in[j])
                             <= _calculate_offer_score(offers_in[k])})
        Parseable(o) == HasNumericToken(o.price)
        others == SelectSeq(SubSeq(offers_in, 1, best - 1)
                              \o SubSeq(offers_in, best + 1, Len(offers_in)), Parseable)
        other_prices == [i \in 1..Len(others) |-> _extract_numeric_price(others[i].price[1])]
        p == _extract_numeric_price(offers_in[best].price[1])
        decided == Parseable(offers_in[best]) /\ others # << >>
        lowest == decided /\ p < MinSeq(other_prices)
        competitive == decided /\ ~lowest /\ p * Len(other_prices) < SumSeq(other_prices)
        reasoning == compared[1].value.reasoning
    IN  /\ lowest <=> \E i \in 1..Len(reasoning) :
                        reasoning[i] = "it offers the lowest price among all options"
        /\ competitive <=> \E i \in 1..Len(reasoning) :
                             reasoning[i] = "it offers a competitive price below the average"

(***************************************************************************)
(* Properties of a sequence of chat calls (specification SpecSeq).         *)
(***************************************************************************)
\* the chat calls made on a thread id, in order
CallsOn(thread_id) == SelectSeq(calls, LAMBDA c : c.thread_id = thread_id)

\* C21: every chat invocation starts with no search results, no comparison
\* result and no citations for its thread, whatever the earlier turns of the
\* thread stored, and with the thread's messages followed by the new user
\* message; an invocation routed to default_chat runs analyze_input and
\* generate_response only (neither the search nor the fetch node), hands no
\* offer to the prompt, and returns empty search_results and no
\* comparison_result.
C21_InvocationStartsEmpty ==
  /\ pc = "analyze_input" =>
       /\ threads[cur].search_results = << >>
       /\ threads[cur].comparison_result = None
       /\ threads[cur].citations = {}
       /\ threads[cur].action_type = ""
       /\ threads[cur].messages = msgs0 \o <<HumanMessage(threads[cur].user_input)>>
  /\ (threads[cur].action_type = "default_chat" /\ pc \in {"generate_response", "END"}) =>
       /\ path \in {<<"analyze_input">>, <<"analyze_input", "generate_response">>}
       /\ threads[cur].search_results = << >>
       /\ threads[cur].comparison_result = None
  /\ (threads[cur].action_type = "default_chat" /\ outcome.kind = "returned") =>
       /\ path = <<"analyze_input", "generate_response", "END">>
       /\ {"search_raised", "fetch_raised", "comparator_called"} \cap events = {}
       /\ prompt[1].offers = << >>
       /\ prompt[1].best = None
       /\ outcome.value.search_results = << >>
       /\ outcome.value.comparison_result = None

\* a default_chat invocation has returned on a thread whose previous
\* invocation returned offers and a comparison
C21_Witness ==
  /\ outcome.kind = "returned"
  /\ threads[cur].action_type = "default_chat"
  /\ Len(CallsOn(cur)) >= 2
  /\ LET previous == CallsOn(cur)[Len(CallsOn(cur)) - 1]
     IN  /\ previous.outcome.kind = "returned"
         /\ previous.outcome.value.search_results # << >>
         /\ previous.outcome.value.comparison_result # None
  /\ Len(threads[cur].messages) = 4

\* C22: on a thread id all of whose n chat calls returned, the stored
\* conversation has exactly 2n messages, user and assistant in turn, the
\* i-th user message is the input of the i-th call and the i-th assistant
\* message is the response that call returned; get_chat_history reads the
\* same turns.
C22_TurnsAlternate ==
  \A t \in ThreadIds :
    (\A i \in 1..Len(CallsOn(t)) : CallsOn(t)[i].outcome.kind = "returned") =>
      /\ Len(threads[t].messages) = 2 * Len(CallsOn(t))
      /\ \A i \in 1..Len(CallsOn(t)) :
           /\ threads[t].messages[2 * i - 1] = HumanMessage(CallsOn(t)[i].user_input)
           /\ threads[t].messages[2 * i] = AIMessage(CallsOn(t)[i].outcome.value.response)
      /\ (history # None /\ history[1].thread_id = t) =>
           /\ Len(history[1].turns) = 2 * Len(CallsOn(t))
           /\ \A k \in 1..Len(history[1].turns) :
                /\ history[1].turns[k].role = (IF k % 2 = 1 THEN "user" ELSE "assistant")
                /\ history[1].turns[k].content = threads[t].messages[k].content

\* two calls returned on one thread id, with different inputs, and its
\* history was read
C22_Witness ==
  \E t \in ThreadIds :
    /\ Len(CallsOn(t)) = 2
    /\ \A i \in 1..2 : CallsOn(t)[i].outcome.kind = "returned"
    /\ CallsOn(t)[1].user_input # CallsOn(t)[2].user_input
    /\ history # None /\ history[1].thread_id = t
    /\ Len(history[1].turns) = 4

====
